---- MODULE Spec2Model ----
(***************************************************************************)
(* A model of the gutendex chat pipeline: the lock-guarded singleton of    *)
(* the text-generation pipeline (app/llm.py get_llm_pipeline), the         *)
(* extraction of a filter from the oracle's completion (query_to_filter),  *)
(* the normalisation done by the /chat handler (app/main.py chat) and the  *)
(* summary of a result set (summarize_results).                            *)
(*                                                                         *)
(* Strings the code inspects character by character (the query, numeric    *)
(* strings) are sequences of one-character strings.  A JSON value is a     *)
(* pair <<tag, payload>> with tag in "int", "str", "list", "null".         *)
(***************************************************************************)
EXTENDS Integers, Sequences, FiniteSets, TLC

VARIABLES
  _llm_pipeline,  \* llm.py:10  the module-level singleton (None or a pipeline)
  _llm_lock,      \* llm.py:11  the thread holding the Lock, 0 when free
  gpc,            \* per thread: its position in get_llm_pipeline
  tokenizer,      \* per thread: local `tokenizer` (0: not loaded)
  model,          \* per thread: local `model` (0: not loaded)
  ret,            \* per thread: the value its last completed call returned
  calls,          \* per thread: calls of get_llm_pipeline started
  builds,         \* history: executions of the assignment at llm.py:27
  failures,       \* history: calls that ended by an exception
  query,          \* the request's query string (sequence of characters)
  pc,             \* the request's position
  response,       \* the oracle's generated_text (sequence of tokens)
  result,         \* what the function under call returned
  raised,         \* TRUE when the function under call raised to its caller
  oracle_calls,   \* history: invocations of pipe(...)
  filters,        \* chat: the filter extract_filter returned
  cleaned,        \* chat: the normalised filter handed to the store
  limit,          \* chat: the limit handed to the store
  books,          \* the result set (sequence of books)
  generated,      \* summarize_results: the oracle's generated_text (a string)
  summary,        \* the summary text
  status,         \* chat: the HTTP status of the response, 0 while in progress
  catalog,        \* the store: the rows of books_book with their relations, by id
  db_filters,     \* get_books: its `filters` argument
  page1,          \* get_books: the first call's skip, limit and returned (total, books)
  page2           \* get_books: a second call's, over the same catalog and filters

tvars == <<_llm_pipeline, _llm_lock, gpc, tokenizer, model, ret, calls, builds, failures>>
rvars == <<query, pc, response, result, raised, oracle_calls, filters, cleaned, limit, books, generated, summary, status>>
svars == <<catalog, db_filters, page1, page2>>
vars == <<tvars, rvars, svars>>

(***************************************************************************)
(* Bounds                                                                  *)
(***************************************************************************)
NumThreads == 2
MaxCalls == 2
MaxWords == 2
MaxPairs == 2
MaxBooks == 3
Threads == 1..NumThreads

(***************************************************************************)
(* get_llm_pipeline (llm.py:13-37)                                         *)
(***************************************************************************)
None == [tok |-> 0, mdl |-> 0, id |-> 0]

\* the statements inside `with _llm_lock:` that construct the oracle
ConstructionSection == {"load_tokenizer", "load_model", "build_pipeline"}
\* every position at which the thread holds the lock
InsideWith == {"check", "release"} \cup ConstructionSection

\* a thread calls get_llm_pipeline()
Call(t) ==
  /\ gpc[t] \in {"idle", "returned", "raised"}
  /\ calls[t] < MaxCalls
  /\ gpc' = [gpc EXCEPT ![t] = "acquire"]
  /\ calls' = [calls EXCEPT ![t] = @ + 1]
  /\ UNCHANGED <<_llm_pipeline, _llm_lock, tokenizer, model, ret, builds, failures, rvars, svars>>

\* a lock acquisition that does not wait for the lock to be free
AcquireUnguarded(t) ==
  /\ gpc[t] = "acquire"
  /\ _llm_lock' = t
  /\ gpc' = [gpc EXCEPT ![t] = "check"]
  /\ UNCHANGED <<_llm_pipeline, tokenizer, model, ret, calls, builds, failures, rvars, svars>>

\* `with _llm_lock:` blocks until the lock is free, then takes it
Acquire(t) ==
  /\ gpc[t] = "acquire"
  /\ _llm_lock = 0
  /\ _llm_lock' = t
  /\ gpc' = [gpc EXCEPT ![t] = "check"]
  /\ UNCHANGED <<_llm_pipeline, tokenizer, model, ret, calls, builds, failures, rvars, svars>>

\* `if _llm_pipeline is None:`
Check(t) ==
  /\ gpc[t] = "check"
  /\ gpc' = [gpc EXCEPT ![t] = IF _llm_pipeline = None THEN "load_tokenizer" ELSE "release"]
  /\ UNCHANGED <<_llm_pipeline, _llm_lock, tokenizer, model, ret, calls, builds, failures, rvars, svars>>

\* `tokenizer = AutoTokenizer.from_pretrained(...)` succeeds
LoadTokenizer(t) ==
  /\ gpc[t] = "load_tokenizer"
  /\ tokenizer' = [tokenizer EXCEPT ![t] = t]
  /\ gpc' = [gpc EXCEPT ![t] = "load_model"]
  /\ UNCHANGED <<_llm_pipeline, _llm_lock, model, ret, calls, builds, failures, rvars, svars>>

\* `model = AutoModelForCausalLM.from_pretrained(...)` succeeds
LoadModel(t) ==
  /\ gpc[t] = "load_model"
  /\ model' = [model EXCEPT ![t] = t]
  /\ gpc' = [gpc EXCEPT ![t] = "build_pipeline"]
  /\ UNCHANGED <<_llm_pipeline, _llm_lock, tokenizer, ret, calls, builds, failures, rvars, svars>>

\* `_llm_pipeline = pipeline(...)` succeeds: the only assignment to the global
BuildPipeline(t) ==
  /\ gpc[t] = "build_pipeline"
  /\ _llm_pipeline' = [tok |-> tokenizer[t], mdl |-> model[t], id |-> builds + 1]
  /\ builds' = builds + 1
  /\ gpc' = [gpc EXCEPT ![t] = "release"]
  /\ UNCHANGED <<_llm_lock, tokenizer, model, ret, calls, failures, rvars, svars>>

\* a failing load that leaves the lock held (acquire()/release() without finally)
LoadFailsKeepsLock(t) ==
  /\ gpc[t] \in ConstructionSection
  /\ gpc' = [gpc EXCEPT ![t] = "raised"]
  /\ tokenizer' = [tokenizer EXCEPT ![t] = 0]
  /\ model' = [model EXCEPT ![t] = 0]
  /\ failures' = failures + 1
  /\ UNCHANGED <<_llm_pipeline, _llm_lock, ret, calls, builds, rvars, svars>>

\* one of the three loads raises: the exception leaves the `with` block, which
\* releases the lock, and propagates to the caller; the locals are dropped
LoadFails(t) ==
  /\ gpc[t] \in ConstructionSection
  /\ _llm_lock' = 0
  /\ gpc' = [gpc EXCEPT ![t] = "raised"]
  /\ tokenizer' = [tokenizer EXCEPT ![t] = 0]
  /\ model' = [model EXCEPT ![t] = 0]
  /\ failures' = failures + 1
  /\ UNCHANGED <<_llm_pipeline, ret, calls, builds, rvars, svars>>

\* the end of the `with` block releases the lock
Release(t) ==
  /\ gpc[t] = "release"
  /\ _llm_lock' = 0
  /\ gpc' = [gpc EXCEPT ![t] = "return"]
  /\ UNCHANGED <<_llm_pipeline, tokenizer, model, ret, calls, builds, failures, rvars, svars>>

\* `return _llm_pipeline`, read after the lock is released
Return(t) ==
  /\ gpc[t] = "return"
  /\ ret' = [ret EXCEPT ![t] = _llm_pipeline]
  /\ tokenizer' = [tokenizer EXCEPT ![t] = 0]
  /\ model' = [model EXCEPT ![t] = 0]
  /\ gpc' = [gpc EXCEPT ![t] = "returned"]
  /\ UNCHANGED <<_llm_pipeline, _llm_lock, calls, builds, failures, rvars, svars>>

\* one step of thread t inside get_llm_pipeline
get_llm_pipeline(t) ==
  \/ Acquire(t)
  \/ Check(t)
  \/ LoadTokenizer(t)
  \/ LoadModel(t)
  \/ BuildPipeline(t)
  \/ LoadFails(t)
  \/ Release(t)
  \/ Return(t)

TInit ==
  /\ _llm_pipeline = None
  /\ _llm_lock = 0
  /\ gpc = [t \in Threads |-> "idle"]
  /\ tokenizer = [t \in Threads |-> 0]
  /\ model = [t \in Threads |-> 0]
  /\ ret = [t \in Threads |-> None]
  /\ calls = [t \in Threads |-> 0]
  /\ builds = 0
  /\ failures = 0

\* no request in progress
RIdle ==
  /\ query = <<>>
  /\ pc = "none"
  /\ response = <<>>
  /\ result = <<>>
  /\ raised = FALSE
  /\ oracle_calls = 0
  /\ filters = <<>>
  /\ cleaned = <<>>
  /\ limit = 0
  /\ books = <<>>
  /\ generated = ""
  /\ summary = ""
  /\ status = 0

\* no store call in progress
NoPage == [skip |-> 0, limit |-> 0, total |-> 0, books |-> <<>>]

SIdle ==
  /\ catalog = <<>>
  /\ db_filters = <<>>
  /\ page1 = NoPage
  /\ page2 = NoPage

Init == TInit /\ RIdle /\ SIdle

Next == \E t \in Threads : Call(t) \/ get_llm_pipeline(t)

\* concurrent callers of get_llm_pipeline
Spec == Init /\ [][Next]_vars

(***************************************************************************)
(* Strings.  A string is a TLA+ string; SubSeq(s, i, i) is its i-th        *)
(* character.                                                              *)
(***************************************************************************)
UpperAlpha == "ABCDEFGHIJKLMNOPQRSTUVWXYZ"
LowerAlpha == "abcdefghijklmnopqrstuvwxyz"
Digits == "0123456789"

CharAt(s, i) == SubSeq(s, i, i)

\* the 1-based position of character c in alphabet a, 0 when absent
IndexIn(a, c) == IF \E i \in 1..Len(a) : CharAt(a, i) = c
                 THEN CHOOSE i \in 1..Len(a) : CharAt(a, i) = c
                 ELSE 0

LowerChar(c) == IF IndexIn(UpperAlpha, c) # 0 THEN CharAt(LowerAlpha, IndexIn(UpperAlpha, c)) ELSE c

\* str.lower()
RECURSIVE lower(_)
lower(s) == IF Len(s) = 0 THEN "" ELSE LowerChar(CharAt(s, 1)) \o lower(SubSeq(s, 2, Len(s)))

\* Python's `sub in s` for strings
Contains(s, sub) == \E i \in 0..(Len(s) - Len(sub)) : SubSeq(s, i + 1, i + Len(sub)) = sub

\* str.isdigit() on the ASCII strings of the model
isdigit(s) == Len(s) > 0 /\ \A i \in 1..Len(s) : IndexIn(Digits, CharAt(s, i)) # 0

\* int(s) for a string of decimal digits
RECURSIVE int_of_digits(_)
int_of_digits(s) ==
  IF Len(s) = 0 THEN 0
  ELSE 10 * int_of_digits(SubSeq(s, 1, Len(s) - 1)) + (IndexIn(Digits, CharAt(s, Len(s))) - 1)

Range(seq) == {seq[i] : i \in 1..Len(seq)}

(***************************************************************************)
(* Dictionaries are functions from key strings to JSON values.             *)
(***************************************************************************)
EmptyDict == <<>>
Restrict(d, S) == [k \in (DOMAIN d) \cap S |-> d[k]]

JNull == <<"null", 0>>
JInt(n) == <<"int", n>>
JStr(s) == <<"str", s>>
JList(l) == <<"list", l>>

(***************************************************************************)
(* The oracle's generated_text, as a sequence of tokens: prose ("text"),   *)
(* the characters "{", "}" and "]", and an object member `"k": v` ("pair", *)
(* with the comma that separates it from its neighbour).                   *)
(***************************************************************************)
Tok(kind) == [t |-> kind, k |-> "", v |-> JNull]
Pair(key, val) == [t |-> "pair", k |-> key, v |-> val]

\* str.index("{"): the position of the first "{", 0 when there is none (ValueError)
index_brace(resp) ==
  IF \E i \in 1..Len(resp) : resp[i].t = "{"
  THEN CHOOSE i \in 1..Len(resp) : resp[i].t = "{" /\ \A j \in 1..(i - 1) : resp[j].t # "{"
  ELSE 0

\* the token ends with "}" or "]" (a member whose value is a list ends with "]")
EndsWithClose(tok) == tok.t \in {"}", "]"} \/ (tok.t = "pair" /\ tok.v[1] = "list")

\* max(json_str.rfind("}"), json_str.rfind("]")), 0 for -1
last_brace(js) ==
  IF \E i \in 1..Len(js) : EndsWithClose(js[i])
  THEN CHOOSE i \in 1..Len(js) : EndsWithClose(js[i]) /\ \A j \in (i + 1)..Len(js) : ~EndsWithClose(js[j])
  ELSE 0

\* json.loads accepts the text: one object, "{" members "}"
JsonValid(js) ==
  /\ Len(js) >= 2
  /\ js[1].t = "{"
  /\ js[Len(js)].t = "}"
  /\ \A i \in 2..(Len(js) - 1) : js[i].t = "pair"

\* json.loads of an accepted text: a repeated key keeps its last value
json_loads(js) ==
  LET keys == {js[i].k : i \in 2..(Len(js) - 1)}
      lastOf(key) == CHOOSE i \in 2..(Len(js) - 1) :
                        js[i].k = key /\ \A j \in (i + 1)..(Len(js) - 1) : js[j].k # key
  IN [key \in keys |-> js[lastOf(key)].v]

(***************************************************************************)
(* extract_explicit_keys and query_to_filter (llm.py:39-153)               *)
(***************************************************************************)
allowed_keys == <<"author", "title", "language", "topic", "mime_type", "ids", "sort", "limit">>

\* every allowed key counts as mentioned, whatever the query says
extract_all_keys(q, allowed) == allowed

\* [k for k in allowed if k in query_lower]
extract_explicit_keys(q, allowed) ==
  LET query_lower == lower(q)
  IN SelectSeq(allowed, LAMBDA key : Contains(query_lower, key))

\* a comprehension that keeps every key of the parsed object
KeepAnyKey(key, explicit_keys) == TRUE

\* a comprehension without the exemption of sort and limit
KeepExplicitOnly(key, explicit_keys) == key \in Range(explicit_keys)

\* the condition of the dict comprehension at llm.py:149
KeepKey(key, explicit_keys) == key \in Range(explicit_keys) \/ key \in {"sort", "limit"}

\* a sanitization that also makes every kept value a one-element list
filter_listing(filter_dict, q) ==
  LET explicit_keys == extract_explicit_keys(q, allowed_keys)
  IN [key \in {k \in DOMAIN filter_dict : KeepKey(k, explicit_keys)} |-> JList(<<filter_dict[key]>>)]

\* the sanitization step (llm.py:147-149): the explicit keys of the query, then
\* the comprehension over the items of filter_dict
filter_explicit(filter_dict, q) ==
  LET explicit_keys == extract_explicit_keys(q, allowed_keys)
  IN Restrict(filter_dict, {key \in DOMAIN filter_dict : KeepKey(key, explicit_keys)})

\* the text handed to json.loads (llm.py:141-145); <<>> when index raises
json_str_of(resp) ==
  LET json_start == index_brace(resp)
      json_str == SubSeq(resp, json_start, Len(resp))
      lb == last_brace(json_str)
  IN IF json_start = 0 THEN <<>>
     ELSE IF lb # 0 THEN SubSeq(json_str, 1, lb) ELSE json_str

\* the try block of query_to_filter (llm.py:139-153): any exception gives {}
parse_and_filter(q, resp) ==
  LET json_str == json_str_of(resp)
  IN IF ~JsonValid(json_str) THEN EmptyDict
     ELSE filter_explicit(json_loads(json_str), q)

(***************************************************************************)
(* Inputs: the queries and the oracle's completions                        *)
(***************************************************************************)
Words == <<"top", "3", "latest", "titled", "ids">>

RECURSIVE WordQueries(_)
WordQueries(n) ==
  IF n = 0 THEN {""}
  ELSE IF n = 1 THEN Range(Words)
  ELSE {q \o " " \o w : q \in WordQueries(n - 1), w \in Range(Words)}

NamedQueries ==
  { "books titled Pride and Prejudice",
    "Most Downloaded book",
    "List top 3 most downloaded French books",
    "most downloaded",
    "asdfghjkl",
    "author Twain sort by limit",
    "stop 3 fr books",
    "ids in fr" }

Queries == NamedQueries \cup UNION {WordQueries(n) : n \in 0..MaxWords}

\* the members an oracle completion may hold, in the order they appear
PairTokens ==
  << Pair("title", JStr("Pride and Prejudice")),
     Pair("author", JStr("Austen, Jane")),
     Pair("language", JList(<<JStr("en")>>)),
     Pair("ids", JStr("1342")),
     Pair("ids", JList(<<JStr("1342"), JStr("abc"), JInt(84)>>)),
     Pair("ids", JList(<<>>)),
     Pair("sort", JStr("download_count:desc")),
     Pair("limit", JInt(3)),
     Pair("limit", JStr("abc")),
     Pair("limit", JInt(-3)),
     Pair("publisher", JStr("Penguin")) >>

Min(S) == CHOOSE m \in S : \A x \in S : m <= x

RECURSIVE MembersOf(_)
MembersOf(S) == IF S = {} THEN <<>> ELSE <<PairTokens[Min(S)]>> \o MembersOf(S \ {Min(S)})

Bodies(n) == {MembersOf(S) : S \in {T \in SUBSET (1..Len(PairTokens)) : Cardinality(T) <= n}}

Responses ==
  \* a JSON object alone, and one wrapped in prose
     {<<Tok("{")>> \o b \o <<Tok("}")>> : b \in Bodies(MaxPairs)}
  \cup {<<Tok("text"), Tok("{")>> \o b \o <<Tok("}"), Tok("text")>> : b \in Bodies(1)}
  \* no opening brace
  \cup {<<Tok("text")>> \o b : b \in Bodies(1)}
  \* an object that is not closed
  \cup {<<Tok("{")>> \o b : b \in Bodies(1)}
  \* a closed object followed by a stray bracket
  \cup {<<Tok("{")>> \o b \o <<Tok("}"), Tok("]")>> : b \in Bodies(1)}
  \* prose between the braces
  \cup {<<Tok("{"), Tok("text")>> \o b \o <<Tok("}")>> : b \in Bodies(1)}

(***************************************************************************)
(* query_to_filter as a sequence of steps of the request's thread          *)
(***************************************************************************)
Me == 1

\* `pipe = get_llm_pipeline()` (llm.py:137): the request's thread enters the call
Q2FGetPipeline ==
  /\ pc = "q2f"
  /\ gpc[Me] = "idle"
  /\ gpc' = [gpc EXCEPT ![Me] = "acquire"]
  /\ calls' = [calls EXCEPT ![Me] = @ + 1]
  /\ pc' = "q2f_wait"
  /\ UNCHANGED <<_llm_pipeline, _llm_lock, tokenizer, model, ret, builds, failures, svars>>
  /\ UNCHANGED <<query, response, result, raised, oracle_calls, filters, cleaned, limit, books, generated, summary, status>>

\* get_llm_pipeline raised: llm.py:137 is outside the try, the exception propagates
Q2FInitRaised ==
  /\ pc = "q2f_wait"
  /\ gpc[Me] = "raised"
  /\ raised' = TRUE
  /\ pc' = "q2f_done"
  /\ UNCHANGED <<tvars, svars>>
  /\ UNCHANGED <<query, response, result, oracle_calls, filters, cleaned, limit, books, generated, summary, status>>

\* `pipe(prompt, max_new_tokens=180)` raises: llm.py:138 is outside the try
Q2FInvokeRaises ==
  /\ pc = "q2f_wait"
  /\ gpc[Me] = "returned"
  /\ oracle_calls' = oracle_calls + 1
  /\ raised' = TRUE
  /\ pc' = "q2f_done"
  /\ UNCHANGED <<tvars, svars>>
  /\ UNCHANGED <<query, response, result, filters, cleaned, limit, books, generated, summary, status>>

\* the oracle answers: llm.py:138-153
Q2FInvoke ==
  /\ pc = "q2f_wait"
  /\ gpc[Me] = "returned"
  /\ \E r \in Responses :
       /\ response' = r
       /\ result' = parse_and_filter(query, r)
  /\ oracle_calls' = oracle_calls + 1
  /\ pc' = "q2f_done"
  /\ UNCHANGED <<tvars, svars>>
  /\ UNCHANGED <<query, raised, filters, cleaned, limit, books, generated, summary, status>>

query_to_filter ==
  \/ Q2FGetPipeline
  \/ get_llm_pipeline(Me)
  \/ Q2FInitRaised
  \/ Q2FInvokeRaises
  \/ Q2FInvoke

\* a call query_to_filter(query), for every query
InitFilter ==
  /\ TInit
  /\ query \in Queries
  /\ pc = "q2f"
  /\ response = <<>>
  /\ result = EmptyDict
  /\ raised = FALSE
  /\ oracle_calls = 0
  /\ filters = EmptyDict
  /\ cleaned = EmptyDict
  /\ limit = 0
  /\ books = <<>>
  /\ generated = ""
  /\ summary = ""
  /\ status = 0
  /\ SIdle

NextFilter == query_to_filter

SpecFilter == InitFilter /\ [][NextFilter]_vars

\* query_to_filter returned a filter built from a parsed completion
Parsed == pc = "q2f_done" /\ ~raised /\ JsonValid(json_str_of(response))
Candidate == json_loads(json_str_of(response))

(***************************************************************************)
(* C3: the filter query_to_filter returns holds only keys of the closed    *)
(* set author, title, language, topic, mime_type, ids, sort, limit.        *)
(***************************************************************************)
ClosedVocabulary == DOMAIN result \subseteq Range(allowed_keys)

\* the oracle emitted a key outside the set beside a kept one
ClosedVocabularyWitness ==
  /\ Parsed
  /\ "publisher" \in DOMAIN Candidate
  /\ "title" \in DOMAIN result

(***************************************************************************)
(* C4: a key among author, title, language, topic, mime_type whose name    *)
(* is not a substring of the lower-cased query is absent from the returned *)
(* filter; no error is raised for it and the corroborated keys keep their  *)
(* values.                                                                 *)
(***************************************************************************)
ContentKeys == {"author", "title", "language", "topic", "mime_type"}

UncorroboratedDropped ==
  /\ (pc = "q2f_done" /\ response # <<>>) => ~raised
  /\ Parsed =>
       /\ \A key \in ContentKeys :
            ~Contains(lower(query), key) => key \notin DOMAIN result
       /\ \A key \in ContentKeys \cap DOMAIN Candidate :
            Contains(lower(query), key) => key \in DOMAIN result /\ result[key] = Candidate[key]

\* the example: candidate {title, author} for "books titled Pride and Prejudice"
UncorroboratedDroppedWitness ==
  /\ Parsed
  /\ query = "books titled Pride and Prejudice"
  /\ DOMAIN Candidate = {"title", "author"}
  /\ result = [title |-> JStr("Pride and Prejudice")]

(***************************************************************************)
(* C5 (as amended): sort and limit produced by the oracle are always       *)
(* retained in the returned filter, with the oracle's values, whether or   *)
(* not the query holds an intent word: the comprehension exempts them from *)
(* the explicit-mention test.                                              *)
(***************************************************************************)
SortLimitAlwaysRetained ==
  Parsed =>
    \A key \in {"sort", "limit"} \cap DOMAIN Candidate :
      key \in DOMAIN result /\ result[key] = Candidate[key]

\* the query holds one of the intent words
HasIntentWord(q) ==
  \/ Contains(lower(q), "most downloaded")
  \/ Contains(lower(q), "latest")
  \/ Contains(lower(q), "top")

\* sort and limit were emitted for a query without intent word, and kept
SortLimitAlwaysRetainedWitness ==
  /\ Parsed
  /\ ~HasIntentWord(query)
  /\ ~Contains(lower(query), "sort")
  /\ {"sort", "limit"} \subseteq DOMAIN Candidate
  /\ {"sort", "limit"} \subseteq DOMAIN result

(***************************************************************************)
(* C5 (as claimed): for a query that holds none of the intent words "most  *)
(* downloaded", "latest", "top", the returned filter holds neither sort    *)
(* nor limit.                                                              *)
(***************************************************************************)
SortLimitOnlyWithIntent ==
  (pc = "q2f_done" /\ ~HasIntentWord(query)) =>
    "sort" \notin DOMAIN result /\ "limit" \notin DOMAIN result

(***************************************************************************)
(* C7: in every filter query_to_filter returns, limit is absent or a value *)
(* coercible to a positive integer.                                        *)
(***************************************************************************)
CoerciblePositive(v) ==
  \/ v[1] = "int" /\ v[2] > 0
  \/ v[1] = "str" /\ isdigit(v[2]) /\ int_of_digits(v[2]) > 0

LimitAbsentOrPositive ==
  (pc = "q2f_done" /\ "limit" \in DOMAIN result) => CoerciblePositive(result["limit"])

(***************************************************************************)
(* C9: query_to_filter never raises to its caller; when the oracle throws  *)
(* or its completion holds no parseable JSON object, it returns {}.        *)
(***************************************************************************)
ExtractionNeverRaises ==
  pc = "q2f_done" =>
    /\ ~raised
    /\ ~JsonValid(json_str_of(response)) => result = EmptyDict

(***************************************************************************)
(* extract_filter: the deterministic intent router in front of the         *)
(* generative extractor.  main.py imports it from app.llm, which does not  *)
(* define it; it is modelled from the specification (section 4.1).         *)
(***************************************************************************)
WordChars == LowerAlpha \o UpperAlpha \o Digits \o "_"

IsWordAt(s, i) == i >= 1 /\ i <= Len(s) /\ IndexIn(WordChars, CharAt(s, i)) # 0

\* the regex \b between the characters i and i + 1 of s
Boundary(s, i) == IsWordAt(s, i) # IsWordAt(s, i + 1)

\* pat occurs in s after the first i characters
MatchAt(s, pat, i) == i + Len(pat) <= Len(s) /\ SubSeq(s, i + 1, i + Len(pat)) = pat

\* \bpat\b
WordMatchAt(s, pat, i) == MatchAt(s, pat, i) /\ Boundary(s, i) /\ Boundary(s, i + Len(pat))

\* the last position of the run of digits that starts at j (j - 1: no digit at j)
DigitsEnd(s, j) ==
  CHOOSE e \in (j - 1)..Len(s) :
    /\ \A k \in j..e : IndexIn(Digits, CharAt(s, k)) # 0
    /\ (e < Len(s) => IndexIn(Digits, CharAt(s, e + 1)) = 0)

\* pat followed by \d+ occurs in s after the first i characters
NumberAt(s, pat, i) == MatchAt(s, pat, i) /\ DigitsEnd(s, i + Len(pat) + 1) >= i + Len(pat) + 1

\* \btop \d+\b
TopNAt(s, i) ==
  /\ Boundary(s, i)
  /\ NumberAt(s, "top ", i)
  /\ Boundary(s, DigitsEnd(s, i + 5))

\* the integer that follows the first "pat<digits>" of s, 1 when there is none
number_after(s, pat) ==
  IF \E i \in 0..Len(s) : NumberAt(s, pat, i)
  THEN LET i == CHOOSE i \in 0..Len(s) : NumberAt(s, pat, i) /\ \A j \in 0..(i - 1) : ~NumberAt(s, pat, j)
       IN int_of_digits(SubSeq(s, i + Len(pat) + 1, DigitsEnd(s, i + Len(pat) + 1)))
  ELSE 1

\* the intent of the query; the downloads pattern is tried before "latest"
route(q) ==
  LET s == lower(q)
  IN IF \E i \in 0..Len(s) : WordMatchAt(s, "most downloaded", i) \/ TopNAt(s, i) THEN "downloads"
     ELSE IF \E i \in 0..Len(s) : WordMatchAt(s, "latest", i) THEN "latest"
     ELSE "none"

shortcut_filter(q) ==
  IF route(q) = "downloads"
  THEN [sort |-> JStr("download_count:desc"), limit |-> JInt(number_after(lower(q), "top "))]
  ELSE [sort |-> JStr("latest"), limit |-> JInt(number_after(lower(q), "latest "))]

(***************************************************************************)
(* chat: the normalisation of the filter (main.py:90-123)                  *)
(***************************************************************************)
chat_allowed == {"author", "title", "language", "topic", "mime_type", "ids"}

\* one of the three branches at main.py:96-101 assigns cleaned["ids"]
ids_assigned(v) == v[1] = "int" \/ (v[1] = "str" /\ isdigit(v[2])) \/ v[1] = "list"

\* [int(x) for x in v if isinstance(x, (int, str)) and str(x).isdigit()]
RECURSIVE ids_of_list(_)
ids_of_list(l) ==
  IF l = <<>> THEN <<>>
  ELSE LET x == Head(l)
       IN IF x[1] = "int" /\ x[2] >= 0 THEN <<x>> \o ids_of_list(Tail(l))
          ELSE IF x[1] = "str" /\ isdigit(x[2]) THEN <<JInt(int_of_digits(x[2]))>> \o ids_of_list(Tail(l))
          ELSE ids_of_list(Tail(l))

clean_ids(v) ==
  IF v[1] = "int" THEN <<v>>
  ELSE IF v[1] = "str" THEN <<JInt(int_of_digits(v[2]))>>
  ELSE ids_of_list(v[2])

\* main.py:102-105
clean_other(v) == IF v[1] = "list" THEN v[2] ELSE <<v>>

\* the loop at main.py:93-105
clean_filters(f) ==
  [key \in {x \in (DOMAIN f) \cap chat_allowed : x = "ids" => ids_assigned(f[x])} |->
     IF key = "ids" THEN clean_ids(f[key]) ELSE clean_other(f[key])]

\* re.search(r"\b([a-z]{2})\b", query.lower()): a two-letter word after i characters
TwoLetterAt(s, i) ==
  /\ i + 2 <= Len(s)
  /\ Boundary(s, i)
  /\ IndexIn(LowerAlpha, CharAt(s, i + 1)) # 0
  /\ IndexIn(LowerAlpha, CharAt(s, i + 2)) # 0
  /\ Boundary(s, i + 2)

known_languages == {"fr", "en", "de", "es", "it"}

\* main.py:109-115: the first two-letter word of the query, when a known code
with_language(c, q) ==
  LET s == lower(q)
  IN IF "language" \in DOMAIN c \/ ~\E i \in 0..Len(s) : TwoLetterAt(s, i) THEN c
     ELSE LET i == CHOOSE i \in 0..Len(s) : TwoLetterAt(s, i) /\ \A j \in 0..(i - 1) : ~TwoLetterAt(s, j)
              lang == SubSeq(s, i + 1, i + 2)
          IN IF lang \in known_languages
             THEN [key \in (DOMAIN c) \cup {"language"} |->
                     IF key = "language" THEN <<JStr(lang)>> ELSE c[key]]
             ELSE c

default_limit == 25

\* main.py:118-122: int(limit), 25 when int raises
limit_of(f) ==
  IF "limit" \notin DOMAIN f THEN default_limit
  ELSE LET v == f["limit"]
       IN IF v[1] = "int" THEN v[2]
          ELSE IF v[1] = "str" /\ isdigit(v[2]) THEN int_of_digits(v[2])
          ELSE default_limit

(***************************************************************************)
(* The result sets the store may return                                    *)
(***************************************************************************)
Library ==
  << [id |-> 1342, title |-> "Pride and Prejudice", authors |-> <<"Austen, Jane">>],
     [id |-> 84, title |-> "Frankenstein", authors |-> <<"Shelley, Mary">>],
     [id |-> 11, title |-> "Alice", authors |-> <<>>],
     [id |-> 76, title |-> "Huckleberry Finn", authors |-> <<"Twain, Mark", "Kemble, E. W.">>],
     [id |-> 2701, title |-> "Moby Dick", authors |-> <<"Melville, Herman">>] >>

BookLists == {SubSeq(Library, 1, n) : n \in 0..MaxBooks}

(***************************************************************************)
(* chat (main.py:80-135) as a sequence of steps                            *)
(***************************************************************************)
\* extract_filter: the router matched, the filter is the shortcut's
ChatExtractShortcut ==
  /\ pc = "chat"
  /\ route(query) # "none"
  /\ filters' = shortcut_filter(query)
  /\ pc' = "chat_filtered"
  /\ UNCHANGED <<tvars, svars>>
  /\ UNCHANGED <<query, response, result, raised, oracle_calls, cleaned, limit, books, generated, summary, status>>

\* extract_filter hands every query to the generative extractor
ChatExtractFallbackAlways ==
  /\ pc = "chat"
  /\ pc' = "q2f"
  /\ UNCHANGED <<tvars, svars>>
  /\ UNCHANGED <<query, response, result, raised, oracle_calls, filters, cleaned, limit, books, generated, summary, status>>

\* extract_filter: no shortcut matched, the generative extractor is called
ChatExtractFallback ==
  /\ pc = "chat"
  /\ route(query) = "none"
  /\ pc' = "q2f"
  /\ UNCHANGED <<tvars, svars>>
  /\ UNCHANGED <<query, response, result, raised, oracle_calls, filters, cleaned, limit, books, generated, summary, status>>

\* the extractor raised: chat does not catch it, the response is a 500
ChatExtractRaised ==
  /\ pc = "q2f_done"
  /\ raised
  /\ status' = 500
  /\ pc' = "chat_done"
  /\ UNCHANGED <<tvars, svars>>
  /\ UNCHANGED <<query, response, result, raised, oracle_calls, filters, cleaned, limit, books, generated, summary>>

\* the extractor returned: its locals are gone, `filters` holds its result
ChatExtractReturned ==
  /\ pc = "q2f_done"
  /\ ~raised
  /\ filters' = result
  /\ response' = <<>>
  /\ result' = EmptyDict
  /\ pc' = "chat_filtered"
  /\ UNCHANGED <<tvars, svars>>
  /\ UNCHANGED <<query, raised, oracle_calls, cleaned, limit, books, generated, summary, status>>

\* `if not filters: raise HTTPException(400, ...)` (main.py:87-88)
ChatRejectEmpty ==
  /\ pc = "chat_filtered"
  /\ filters = EmptyDict
  /\ status' = 400
  /\ pc' = "chat_done"
  /\ UNCHANGED <<tvars, svars>>
  /\ UNCHANGED <<query, response, result, raised, oracle_calls, filters, cleaned, limit, books, generated, summary>>

\* main.py:90-123
ChatNormalize ==
  /\ pc = "chat_filtered"
  /\ filters # EmptyDict
  /\ cleaned' = with_language(clean_filters(filters), query)
  /\ limit' = limit_of(filters)
  /\ pc' = "chat_fetch"
  /\ UNCHANGED <<tvars, svars>>
  /\ UNCHANGED <<query, response, result, raised, oracle_calls, filters, books, generated, summary, status>>

\* crud.get_books(db, cleaned, skip=0, limit=limit) returns a result set
ChatFetch ==
  /\ pc = "chat_fetch"
  /\ \E bs \in BookLists :
       /\ limit >= 0 => Len(bs) <= limit
       /\ books' = bs
  /\ pc' = "chat_summarize"
  /\ UNCHANGED <<tvars, svars>>
  /\ UNCHANGED <<query, response, result, raised, oracle_calls, filters, cleaned, limit, generated, summary, status>>

\* the store raises: chat does not catch it, the response is a 500
ChatFetchRaises ==
  /\ pc = "chat_fetch"
  /\ status' = 500
  /\ pc' = "chat_done"
  /\ UNCHANGED <<tvars, svars>>
  /\ UNCHANGED <<query, response, result, raised, oracle_calls, filters, cleaned, limit, books, generated, summary>>

\* `summarize_results(request.query, books)` (main.py:129) passes two arguments
\* to a function of three (llm.py:155): TypeError, the response is a 500
ChatSummarize ==
  /\ pc = "chat_summarize"
  /\ status' = 500
  /\ pc' = "chat_done"
  /\ UNCHANGED <<tvars, svars>>
  /\ UNCHANGED <<query, response, result, raised, oracle_calls, filters, cleaned, limit, books, generated, summary>>

chat ==
  \/ ChatExtractShortcut
  \/ ChatExtractFallback
  \/ query_to_filter
  \/ ChatExtractRaised
  \/ ChatExtractReturned
  \/ ChatRejectEmpty
  \/ ChatNormalize
  \/ ChatFetch
  \/ ChatFetchRaises
  \/ ChatSummarize

\* POST /chat with any query
InitChat ==
  /\ TInit
  /\ query \in Queries
  /\ pc = "chat"
  /\ response = <<>>
  /\ result = EmptyDict
  /\ raised = FALSE
  /\ oracle_calls = 0
  /\ filters = EmptyDict
  /\ cleaned = EmptyDict
  /\ limit = 0
  /\ books = <<>>
  /\ generated = ""
  /\ summary = ""
  /\ status = 0
  /\ SIdle

NextChat == chat

SpecChat == InitChat /\ [][NextChat]_vars

(***************************************************************************)
(* C6: ids coercion in chat: a numeric string becomes a one-element        *)
(* integer sequence, a sequence keeps its numeric entries as integers in   *)
(* order, and ids is never handed to the store as an empty sequence.       *)
(***************************************************************************)
IdsCoercedNeverEmpty ==
  (pc \in {"chat_fetch", "chat_summarize"}) =>
    /\ "ids" \in DOMAIN cleaned =>
         /\ cleaned["ids"] # <<>>
         /\ \A i \in 1..Len(cleaned["ids"]) : cleaned["ids"][i][1] = "int"
    /\ ("ids" \in DOMAIN filters /\ filters["ids"] = JStr("1342")) =>
         "ids" \in DOMAIN cleaned /\ cleaned["ids"] = <<JInt(1342)>>

(***************************************************************************)
(* C8: the intent router is consulted before the generative extractor:     *)
(* for a query that matches a shortcut pattern the filter is the           *)
(* shortcut's and the oracle is never loaded or invoked; "Most Downloaded  *)
(* book" yields {sort: "download_count:desc", limit: 1}.                   *)
(***************************************************************************)
AfterExtraction == {"chat_filtered", "chat_fetch", "chat_summarize"}

ShortcutBypassesOracle ==
  /\ route(query) # "none" =>
       /\ oracle_calls = 0
       /\ calls[Me] = 0
       /\ pc \notin {"q2f", "q2f_wait", "q2f_done"}
       /\ pc \in AfterExtraction => filters = shortcut_filter(query)
  /\ (query = "Most Downloaded book" /\ pc \in AfterExtraction) =>
       /\ filters = [sort |-> JStr("download_count:desc"), limit |-> JInt(1)]
       /\ oracle_calls = 0
  /\ (query = "top 3" /\ pc \in AfterExtraction) =>
       /\ filters = [sort |-> JStr("download_count:desc"), limit |-> JInt(3)]
       /\ oracle_calls = 0
  /\ (query = "latest" /\ pc \in AfterExtraction) =>
       /\ filters = [sort |-> JStr("latest"), limit |-> JInt(1)]
       /\ oracle_calls = 0

\* the example's filter was produced and handed on without an oracle call
ShortcutBypassesOracleWitness ==
  /\ query = "Most Downloaded book"
  /\ pc = "chat_fetch"
  /\ filters = [sort |-> JStr("download_count:desc"), limit |-> JInt(1)]
  /\ limit = 1
  /\ oracle_calls = 0

(***************************************************************************)
(* summarize_results (llm.py:155-176)                                      *)
(***************************************************************************)
\* str(n) for n >= 0
RECURSIVE str_of_int(_)
str_of_int(n) ==
  IF n < 10 THEN CharAt(Digits, n + 1)
  ELSE str_of_int(n \div 10) \o CharAt(Digits, (n % 10) + 1)

\* str.strip() for the blanks of the model
RECURSIVE strip(_)
strip(s) ==
  IF Len(s) = 0 THEN s
  ELSE IF CharAt(s, 1) = " " THEN strip(SubSeq(s, 2, Len(s)))
  ELSE IF CharAt(s, Len(s)) = " " THEN strip(SubSeq(s, 1, Len(s) - 1))
  ELSE s

\* ", ".join(names)
RECURSIVE join_names(_)
join_names(names) ==
  IF names = <<>> THEN ""
  ELSE IF Len(names) = 1 THEN names[1]
  ELSE names[1] \o ", " \o join_names(Tail(names))

\* f"'{title}' by {authors}" (llm.py:164-166)
book_sample(b) ==
  LET authors == IF join_names(b.authors) = "" THEN "Unknown author" ELSE join_names(b.authors)
  IN "'" \o b.title \o "' by " \o authors

no_books_message == "No books matched your criteria."

min_summary_len == 10

\* llm.py:173-176, for a non-empty result set and the oracle's text
summary_of(bs, text) ==
  LET stripped == strip(text)
  IN IF Len(stripped) = 0 \/ Len(stripped) < min_summary_len
     THEN "Found " \o str_of_int(Len(bs)) \o " books including " \o book_sample(bs[1]) \o "."
     ELSE stripped

\* the texts the oracle may generate for a summary
SummaryTexts ==
  { "", "   ", "Ok.", " Too short ", "1234567890",
    "Here are classic novels by Jane Austen.",
    "  Two well known books were found.  " }

\* a summarizer without the early return of llm.py:160-161: the count template
SumEmptyTemplated ==
  /\ pc = "sum"
  /\ books = <<>>
  /\ summary' = "Found 0 books including ."
  /\ pc' = "sum_done"
  /\ UNCHANGED <<tvars, svars>>
  /\ UNCHANGED <<query, response, result, raised, oracle_calls, filters, cleaned, limit, books, generated, status>>

\* `if not books: return "No books matched your criteria."` (llm.py:160-161)
SumEmpty ==
  /\ pc = "sum"
  /\ books = <<>>
  /\ summary' = no_books_message
  /\ pc' = "sum_done"
  /\ UNCHANGED <<tvars, svars>>
  /\ UNCHANGED <<query, response, result, raised, oracle_calls, filters, cleaned, limit, books, generated, status>>

\* `pipe = get_llm_pipeline()` (llm.py:172): the request's thread enters the call
SumGetPipeline ==
  /\ pc = "sum"
  /\ books # <<>>
  /\ gpc[Me] = "idle"
  /\ gpc' = [gpc EXCEPT ![Me] = "acquire"]
  /\ calls' = [calls EXCEPT ![Me] = @ + 1]
  /\ pc' = "sum_wait"
  /\ UNCHANGED <<_llm_pipeline, _llm_lock, tokenizer, model, ret, builds, failures, svars>>
  /\ UNCHANGED <<query, response, result, raised, oracle_calls, filters, cleaned, limit, books, generated, summary, status>>

\* get_llm_pipeline raised: nothing catches it in summarize_results
SumInitRaised ==
  /\ pc = "sum_wait"
  /\ gpc[Me] = "raised"
  /\ raised' = TRUE
  /\ pc' = "sum_done"
  /\ UNCHANGED <<tvars, svars>>
  /\ UNCHANGED <<query, response, result, oracle_calls, filters, cleaned, limit, books, generated, summary, status>>

\* `pipe(prompt, max_new_tokens=60)` raises: nothing catches it
SumInvokeRaises ==
  /\ pc = "sum_wait"
  /\ gpc[Me] = "returned"
  /\ oracle_calls' = oracle_calls + 1
  /\ raised' = TRUE
  /\ pc' = "sum_done"
  /\ UNCHANGED <<tvars, svars>>
  /\ UNCHANGED <<query, response, result, filters, cleaned, limit, books, generated, summary, status>>

\* the oracle answers: llm.py:173-176
SumInvoke ==
  /\ pc = "sum_wait"
  /\ gpc[Me] = "returned"
  /\ \E text \in SummaryTexts :
       /\ generated' = text
       /\ summary' = summary_of(books, text)
  /\ oracle_calls' = oracle_calls + 1
  /\ pc' = "sum_done"
  /\ UNCHANGED <<tvars, svars>>
  /\ UNCHANGED <<query, response, result, raised, filters, cleaned, limit, books, status>>

summarize_results ==
  \/ SumEmpty
  \/ SumGetPipeline
  \/ get_llm_pipeline(Me)
  \/ SumInitRaised
  \/ SumInvokeRaises
  \/ SumInvoke

\* a call summarize_results(query, filters, books)
InitSummarize ==
  /\ TInit
  /\ query \in Queries
  /\ books \in BookLists
  /\ pc = "sum"
  /\ response = <<>>
  /\ result = EmptyDict
  /\ raised = FALSE
  /\ oracle_calls = 0
  /\ filters = EmptyDict
  /\ cleaned = EmptyDict
  /\ limit = 0
  /\ generated = ""
  /\ summary = ""
  /\ status = 0
  /\ SIdle

NextSummarize == summarize_results

SpecSummarize == InitSummarize /\ [][NextSummarize]_vars

(***************************************************************************)
(* C10: for a non-empty result set the summarizer never raises, and when   *)
(* the oracle fails or returns no text longer than the threshold the       *)
(* summary is "Found {count} books matching your query.".                  *)
(***************************************************************************)
SummaryDegradesToTemplate ==
  (pc = "sum_done" /\ books # <<>>) =>
    /\ ~raised
    /\ Len(strip(generated)) < min_summary_len =>
         summary = "Found " \o str_of_int(Len(books)) \o " books matching your query."

(***************************************************************************)
(* C11: for every query, when the result set is empty the summarizer       *)
(* returns exactly "No books matched your criteria." without raising and   *)
(* without consulting the oracle, so whatever the oracle would have        *)
(* produced has no effect.                                                 *)
(***************************************************************************)
EmptyResultFixedMessage ==
  (pc = "sum_done" /\ books = <<>>) =>
    /\ summary = "No books matched your criteria."
    /\ ~raised
    /\ oracle_calls = 0
    /\ calls[Me] = 0

EmptyResultFixedMessageWitness ==
  /\ pc = "sum_done"
  /\ books = <<>>
  /\ query = "asdfghjkl"
  /\ summary = "No books matched your criteria."

(***************************************************************************)
(* C12: POST /chat answers every query string, the empty string and a      *)
(* noise query included, with status 200: a query yielding an empty filter *)
(* is not turned into an error response.                                   *)
(***************************************************************************)
ChatAnswersEveryQuery ==
  pc = "chat_done" => status = 200

(***************************************************************************)
(* crud.get_books (crud.py:7-65) over a catalog of books (models.py).      *)
(***************************************************************************)
MaxCatalog == 3     \* books in the largest catalog
MaxSkip == 2        \* largest offset asked for
MaxLimit == 2       \* largest page size asked for

\* Book.download_count is a nullable Integer column (models.py:69)
Null == [null |-> TRUE, n |-> 0]
Count(n) == [null |-> FALSE, n |-> n]
Counts == {Null, Count(1), Count(2)}

\* rows of books_book with their authors, subjects, bookshelves, languages and
\* formats (models.py:65-75); the download counts are chosen per catalog
Shelf == <<
  [id |-> 1, title |-> "Emma", authors |-> {"Austen, Jane"}, subjects |-> {"Love stories"},
   bookshelves |-> {}, languages |-> {"en"}, formats |-> {"text/plain"}],
  [id |-> 2, title |-> "Pride", authors |-> {"Austen, Jane"}, subjects |-> {"England"},
   bookshelves |-> {"Best Love"}, languages |-> {"en", "fr"}, formats |-> {"text/html"}],
  [id |-> 3, title |-> "Les Mis", authors |-> {"Hugo, Victor"}, subjects |-> {"France"},
   bookshelves |-> {}, languages |-> {"fr"}, formats |-> {"text/plain", "text/html"}],
  [id |-> 4, title |-> "Poems", authors |-> {}, subjects |-> {},
   bookshelves |-> {"Poetry"}, languages |-> {"de"}, formats |-> {}],
  [id |-> 5, title |-> "Camille", authors |-> {"Dumas, Alexandre"}, subjects |-> {"Love stories"},
   bookshelves |-> {"Best Love"}, languages |-> {"fr"}, formats |-> {"text/plain"}] >>

\* the catalogs: the first n rows, each with any download count
Catalogs ==
  UNION {{[i \in 1..n |-> [book |-> Shelf[i], download_count |-> d[i]]] : d \in [1..n -> Counts]}
         : n \in 0..MaxCatalog}

\* the `filters` arguments of list_books (main.py:55-61): ids a list of int,
\* language, topic, author and title lists of str, mime_type a str; the empty
\* ids list is the one chat can hand over (main.py:100-101)
FilterChoices == <<
  EmptyDict,
  [ids |-> <<1, 3, 7>>],
  [ids |-> <<>>],
  [language |-> <<"en">>],
  [language |-> <<"fr", "de">>],
  [mime_type |-> "text/plain"],
  [topic |-> <<"LOVE">>],
  [topic |-> <<"love", "england">>],
  [author |-> <<"austen">>],
  [title |-> <<"em">>],
  [title |-> <<"m_a">>],
  [author |-> <<"%">>],
  [language |-> <<"en">>, author |-> <<"austen">>, topic |-> <<"love">>],
  [ids |-> <<1, 2>>, title |-> <<"E">>, mime_type |-> "text/html"] >>

\* SQL LIKE: % matches any run of characters, _ any one character
RECURSIVE like(_, _)
like(s, p) ==
  IF p = "" THEN s = ""
  ELSE LET c == CharAt(p, 1)
           rest == SubSeq(p, 2, Len(p))
       IN IF c = "%" THEN like(s, rest) \/ (s # "" /\ like(SubSeq(s, 2, Len(s)), p))
          ELSE IF c = "_" THEN s # "" /\ like(SubSeq(s, 2, Len(s)), rest)
          ELSE s # "" /\ CharAt(s, 1) = c /\ like(SubSeq(s, 2, Len(s)), rest)

\* column.ilike(pattern): LIKE without regard to case
ilike(s, p) == like(lower(s), lower(p))

\* `Book.id.in_(filters['ids'])` (crud.py:19-20)
by_ids(b, f) == "ids" \in DOMAIN f => b.book.id \in Range(f.ids)

\* `Book.languages.any(Language.code.in_(filters['language']))` (crud.py:22-23)
by_language(b, f) ==
  "language" \in DOMAIN f => \E code \in b.book.languages : code \in Range(f.language)

\* `Book.formats.any(Format.mime_type == filters['mime_type'])` (crud.py:25-26)
by_mime_type(b, f) ==
  "mime_type" \in DOMAIN f => \E mime_type \in b.book.formats : mime_type = f.mime_type

\* one filter per topic, each subject OR bookshelf (crud.py:28-35)
by_topic(b, f) ==
  "topic" \in DOMAIN f =>
    \A i \in 1..Len(f.topic) :
      \/ \E name \in b.book.subjects : ilike(name, "%" \o f.topic[i] \o "%")
      \/ \E name \in b.book.bookshelves : ilike(name, "%" \o f.topic[i] \o "%")

\* one filter per author name (crud.py:37-39)
by_author(b, f) ==
  "author" \in DOMAIN f =>
    \A i \in 1..Len(f.author) :
      \E name \in b.book.authors : ilike(name, "%" \o f.author[i] \o "%")

\* one filter per title (crud.py:41-43)
by_title(b, f) ==
  "title" \in DOMAIN f =>
    \A i \in 1..Len(f.title) : ilike(b.book.title, "%" \o f.title[i] \o "%")

\* the rows `query` selects after crud.py:16-43: every filter() is ANDed
Filtered(cat, f) ==
  {b \in Range(cat) : /\ by_ids(b, f)
                      /\ by_language(b, f)
                      /\ by_mime_type(b, f)
                      /\ by_topic(b, f)
                      /\ by_author(b, f)
                      /\ by_title(b, f)}

\* `download_count.desc().nullslast()`: a may come before b
Before(a, b) == b.null \/ (~a.null /\ a.n >= b.n)

\* every arrangement of the rows S
Perms(S) ==
  {p \in [1..Cardinality(S) -> S] : \A i, j \in 1..Cardinality(S) : i # j => p[i] # p[j]}

\* the arrangements ORDER BY download_count DESC NULLS LAST allows: rows with
\* equal or null counts come in any order, the statement has no second key
Orderings(S) ==
  {p \in Perms(S) : \A i, j \in 1..Len(p) : i < j => Before(p[i].download_count, p[j].download_count)}

\* `.offset(skip).limit(limit)` (crud.py:53-54)
Window(rows, skip, lim) ==
  IF skip >= Len(rows) \/ lim = 0 THEN <<>>
  ELSE SubSeq(rows, skip + 1, IF skip + lim < Len(rows) THEN skip + lim ELSE Len(rows))

\* the subquery of crud.py:49-56: distinct (id, download_count) rows, ordered,
\* then cut to the window
subq(cat, f, skip, lim) == {Window(o, skip, lim) : o \in Orderings(Filtered(cat, f))}

\* a join of Book with the subquery that is not ordered again
outer_unordered(rows) == Perms(Range(rows))

\* `db.query(Book).join(subq, ...).order_by(subq.c.download_count.desc().nullslast())`
\* (crud.py:58-63)
outer_ordered(rows) == Orderings(Range(rows))

\* what get_books may return: `total` (crud.py:46) and `books` (crud.py:58-63)
get_books(cat, f, skip, lim) ==
  {[skip |-> skip, limit |-> lim, total |-> Cardinality(Filtered(cat, f)), books |-> bs] :
     bs \in UNION {outer_ordered(rows) : rows \in subq(cat, f, skip, lim)}}

\* a call of get_books(db, filters, skip, limit)
GetBooks ==
  /\ pc = "books"
  /\ \E skip \in 0..MaxSkip, lim \in 0..MaxLimit :
       page1' \in get_books(catalog, db_filters, skip, lim)
  /\ pc' = "books_called"
  /\ UNCHANGED tvars
  /\ UNCHANGED <<query, response, result, raised, oracle_calls, filters, cleaned, limit, books, generated, summary, status>>
  /\ UNCHANGED <<catalog, db_filters, page2>>

\* a later call for a window that starts at or after the end of the first
\* (test_pagination: skip=0&limit=1, then skip=1&limit=1)
GetBooksNextPage ==
  /\ pc = "books_called"
  /\ \E skip \in 0..MaxSkip, lim \in 0..MaxLimit :
       /\ skip >= page1.skip + page1.limit
       /\ page2' \in get_books(catalog, db_filters, skip, lim)
  /\ pc' = "books_done"
  /\ UNCHANGED tvars
  /\ UNCHANGED <<query, response, result, raised, oracle_calls, filters, cleaned, limit, books, generated, summary, status>>
  /\ UNCHANGED <<catalog, db_filters, page1>>

\* the rest of the state while only the store is exercised
SOnly ==
  /\ TInit
  /\ query = <<>>
  /\ pc = "books"
  /\ response = <<>>
  /\ result = <<>>
  /\ raised = FALSE
  /\ oracle_calls = 0
  /\ filters = <<>>
  /\ cleaned = <<>>
  /\ limit = 0
  /\ books = <<>>
  /\ generated = ""
  /\ summary = ""
  /\ status = 0
  /\ page1 = NoPage
  /\ page2 = NoPage

\* one call, for every catalog and every filter
InitBooks ==
  /\ SOnly
  /\ catalog \in Catalogs
  /\ \E i \in 1..Len(FilterChoices) : db_filters = FilterChoices[i]

NextBooks == GetBooks

SpecBooks == InitBooks /\ [][NextBooks]_vars

\* the filters of the paging client
PageFilters == <<EmptyDict, [language |-> <<"fr", "de">>]>>

\* two calls over an unchanged catalog and the same filter
InitPages ==
  /\ SOnly
  /\ catalog \in Catalogs
  /\ \E i \in 1..Len(PageFilters) : db_filters = PageFilters[i]

NextPages == GetBooks \/ GetBooksNextPage

SpecPages == InitPages /\ [][NextPages]_vars

(***************************************************************************)
(* C13: every book get_books returns satisfies all the supplied keys at    *)
(* once: its id is in ids, one of its languages is in language, one of its *)
(* authors' names contains each author value and its title each title      *)
(* value without regard to case, each topic value occurs in one of its     *)
(* subject names or one of its bookshelf names; the total is the number of *)
(* distinct books that satisfy the keys and is at least the number         *)
(* returned.                                                               *)
(***************************************************************************)
HasText(name, value) == Contains(lower(name), lower(value))

SatisfiesKeys(b, f) ==
  /\ "ids" \in DOMAIN f => b.book.id \in Range(f.ids)
  /\ "language" \in DOMAIN f => b.book.languages \cap Range(f.language) # {}
  /\ "mime_type" \in DOMAIN f => f.mime_type \in b.book.formats
  /\ "author" \in DOMAIN f =>
       \A i \in 1..Len(f.author) : \E name \in b.book.authors : HasText(name, f.author[i])
  /\ "title" \in DOMAIN f =>
       \A i \in 1..Len(f.title) : HasText(b.book.title, f.title[i])
  /\ "topic" \in DOMAIN f =>
       \A i \in 1..Len(f.topic) :
         \/ \E name \in b.book.subjects : HasText(name, f.topic[i])
         \/ \E name \in b.book.bookshelves : HasText(name, f.topic[i])

ReturnedSatisfyAllKeys ==
  pc = "books_called" =>
    /\ \A i \in 1..Len(page1.books) : SatisfiesKeys(page1.books[i], db_filters)
    /\ page1.total = Cardinality({b \in Range(catalog) : SatisfiesKeys(b, db_filters)})
    /\ page1.total >= Len(page1.books)

(***************************************************************************)
(* C14: the sequence get_books returns is in non-increasing order of       *)
(* download count with the null counts last, holds no book twice and has   *)
(* at most `limit` entries.                                                *)
(***************************************************************************)
SortedDistinctBounded ==
  pc = "books_called" =>
    LET bs == page1.books
    IN /\ \A i, j \in 1..Len(bs) :
            i < j => /\ bs[i].download_count.null => bs[j].download_count.null
                     /\ ~bs[j].download_count.null =>
                          bs[i].download_count.n >= bs[j].download_count.n
       /\ \A i, j \in 1..Len(bs) : i # j => bs[i].book.id # bs[j].book.id
       /\ Len(bs) <= page1.limit

\* a page cut out of the middle of three matching books: a counted book, then
\* one without a count
SortedDistinctBoundedWitness ==
  /\ pc = "books_called"
  /\ page1.total = 3
  /\ page1.skip = 1
  /\ page1.limit = 2
  /\ Len(page1.books) = 2
  /\ ~page1.books[1].download_count.null
  /\ page1.books[2].download_count.null

(***************************************************************************)
(* C15: pagination is stable: over an unchanged catalog and the same       *)
(* filter, two calls of get_books for windows that do not overlap never    *)
(* return the same book, also when books have equal or null download       *)
(* counts.                                                                 *)
(***************************************************************************)
Ids(bs) == {bs[i].book.id : i \in 1..Len(bs)}

PagesNeverShareABook ==
  (/\ pc = "books_done"
   /\ \/ page2.skip >= page1.skip + page1.limit
      \/ page1.skip >= page2.skip + page2.limit)
    => Ids(page1.books) \cap Ids(page2.books) = {}

(***************************************************************************)
(* C16: sanitization is idempotent: applying the sanitization step, with   *)
(* the same query, to the filter it produced from any candidate mapping    *)
(* returns that filter again, same keys and same values.                   *)
(***************************************************************************)
SanitizationIdempotent ==
  Parsed => /\ result = filter_explicit(Candidate, query)
            /\ filter_explicit(result, query) = result

\* a candidate from which the step removed a key and kept another
SanitizationIdempotentWitness ==
  /\ Parsed
  /\ query = "books titled Pride and Prejudice"
  /\ DOMAIN Candidate = {"title", "author"}
  /\ DOMAIN result = {"title"}
  /\ filter_explicit(result, query) = result

(***************************************************************************)
(* C1: the oracle is constructed at most once per process: no two threads  *)
(* are inside the construction section at the same time, the assignment    *)
(* of the global is executed at most once, and every call that returned    *)
(* yielded the instance the global holds now (so it was never replaced).   *)
(***************************************************************************)
ConstructedOnce ==
  /\ Cardinality({t \in Threads : gpc[t] \in ConstructionSection}) <= 1
  /\ builds <= 1
  /\ \A t \in Threads : gpc[t] = "returned" => /\ ret[t] # None
                                               /\ ret[t] = _llm_pipeline
  /\ \A t \in Threads : ret[t] # None => ret[t] = _llm_pipeline

\* two calls by different threads have returned, after one construction
ConstructedOnceWitness ==
  /\ builds = 1
  /\ \A t \in Threads : gpc[t] = "returned" /\ ret[t] = _llm_pipeline
  /\ \E t \in Threads : calls[t] = MaxCalls

(***************************************************************************)
(* C2: a failed initialization leaves the singleton uninitialized and the  *)
(* lock released: the lock is held only by a thread inside the with block  *)
(* (never by one whose call raised), the global is None until a            *)
(* construction completes and is never a half-built instance, and a call   *)
(* waiting for the lock after a failure can take it.                       *)
(***************************************************************************)
FailedInitRecoverable ==
  /\ _llm_lock # 0 => gpc[_llm_lock] \in InsideWith
  /\ \A t \in Threads : gpc[t] = "raised" => _llm_lock # t
  /\ builds = 0 => _llm_pipeline = None
  /\ _llm_pipeline # None => _llm_pipeline.tok # 0 /\ _llm_pipeline.mdl # 0
  /\ (\A t \in Threads : gpc[t] \notin InsideWith) => _llm_lock = 0

\* an initialization failed, and a later call built the oracle and returned it
FailedInitRecoverableWitness ==
  /\ failures > 0
  /\ builds = 1
  /\ \E t \in Threads : gpc[t] = "returned" /\ ret[t] = _llm_pipeline /\ ret[t] # None

====
